---- MODULE Spec2Model ----
(***************************************************************************)
(* A model of the score table of src/index.js: the Game/Player classes,    *)
(* the extremes calculation, the table projection, the localStorage codec  *)
(* and the event handlers that drive them.                                 *)
(*                                                                         *)
(* JavaScript values are records tagged by the field k, so that values of  *)
(* different JavaScript types can be compared.  An Array is its elements   *)
(* (with holes) plus the properties whose keys are not array indexes.      *)
(***************************************************************************)
EXTENDS Integers, Sequences, FiniteSets, TLC

VARIABLES
    storage,    \* the localStorage item 'gameData'
    game,       \* the global Game: roundCount, playerCount, players
    result,     \* what calculateHighestAndLowestPlayerTotalScores returned last
    dom,        \* the shape of the rendered table: the cells that carry handlers
    pc,         \* "start" before the script runs, then "ready", or "aborted"
                \* when the script's first render() threw
    threw,      \* whether the last script run or event handler threw
    lastOp,     \* the last script run or event handled
    cut         \* history: the lowest player index and the lowest round index
                \* at which the count changes since the last edit, rename or
                \* clear have discarded data (-1: none)

vars == <<storage, game, result, dom, pc, threw, lastOp, cut>>

(***************************************************************************)
(* Bounds of the model.                                                    *)
(***************************************************************************)
\* Count inputs typed by the user range over "", "-1", "0" .. MaxCount.
MaxCount == 2
\* Score cells are edited at round indexes below MaxEdit, in the columns
\* EditedColumns (column j holds the scores of player j - 1).
MaxEdit == 2
\* The extremes calculation is applied to games of up to MaxTotals players.
MaxTotals == 3

(***************************************************************************)
(* JavaScript values.                                                      *)
(***************************************************************************)
Undefined == [k |-> "undefined"]
Null == [k |-> "null"]
NaN == [k |-> "NaN"]
\* An index of an Array below its length that holds no element.
Hole == [k |-> "hole"]
Num(n) == [k |-> "number", v |-> n]
Str(s) == [k |-> "string", s |-> s]
Arr(items, props) == [k |-> "array", items |-> items, props |-> props]
Obj(entries) == [k |-> "object", entries |-> entries]
Entry(key, value) == [key |-> key, value |-> value]
EmptyArray == Arr(<<>>, <<>>)

\* Stand-ins for Number.MAX_SAFE_INTEGER (2^53 - 1) and Number.MIN_SAFE_INTEGER
\* within TLC's 32-bit integers; every total of the model lies strictly between.
MAX_SAFE_INTEGER == 2147483647
MIN_SAFE_INTEGER == -2147483647

typeof(x) ==
    CASE x.k = "undefined" -> "undefined"
      [] x.k \in {"number", "NaN"} -> "number"
      [] x.k = "string" -> "string"
      [] x.k \in {"null", "array", "object"} -> "object"

\* !x
Falsy(x) ==
    \/ x.k \in {"undefined", "null", "NaN"}
    \/ x.k = "number" /\ x.v = 0
    \/ x.k = "string" /\ x.s = ""

\* a < b on numbers and undefined: false as soon as one side is not a number.
Lt(a, b) == a.k = "number" /\ b.k = "number" /\ a.v < b.v

\* x ?? d
Coalesce(x, d) == IF x.k \in {"undefined", "null", "hole"} THEN d ELSE x

\* a + b on numbers.
Plus(a, b) == IF a.k = "number" /\ b.k = "number" THEN Num(a.v + b.v) ELSE NaN

(***************************************************************************)
(* Strings and numbers.                                                    *)
(***************************************************************************)
DigitChars == "0123456789"
IsDigit(c) == \E d \in 1..10 : SubSeq(DigitChars, d, d) = c
DigitValue(c) == (CHOOSE d \in 1..10 : SubSeq(DigitChars, d, d) = c) - 1

RECURSIVE SkipWhiteSpace(_)
SkipWhiteSpace(s) ==
    IF s # "" /\ Head(s) = " " THEN SkipWhiteSpace(Tail(s)) ELSE s

RECURSIVE LeadingDigits(_)
LeadingDigits(s) ==
    IF s # "" /\ IsDigit(Head(s)) THEN Head(s) \o LeadingDigits(Tail(s)) ELSE ""

RECURSIVE DigitsValue(_, _)
DigitsValue(s, acc) ==
    IF s = "" THEN acc ELSE DigitsValue(Tail(s), 10 * acc + DigitValue(Head(s)))

\* parseInt(text) in radix 10: leading blanks, an optional sign, then the longest
\* run of digits; NaN when there is none.  (A 0x prefix is not modelled.)
parseInt(text) ==
    LET t == SkipWhiteSpace(text)
        signed == t # "" /\ Head(t) \in {"-", "+"}
        d == LeadingDigits(IF signed THEN Tail(t) ELSE t)
    IN  IF d = "" THEN NaN
        ELSE IF signed /\ Head(t) = "-" THEN Num(0 - DigitsValue(d, 0))
        ELSE Num(DigitsValue(d, 0))

\* Number(s) of a string: 0 for the empty string, the value of an optionally
\* signed run of digits, NaN otherwise.  (Blanks, fractions, exponents and
\* radix prefixes are not modelled.)
StringToNumber(s) ==
    LET signed == s # "" /\ Head(s) \in {"-", "+"}
        body == IF signed THEN Tail(s) ELSE s
    IN  IF s = "" THEN Num(0)
        ELSE IF body # "" /\ LeadingDigits(body) = body
             THEN Num(IF signed /\ Head(s) = "-" THEN 0 - DigitsValue(body, 0)
                      ELSE DigitsValue(body, 0))
        ELSE NaN

\* isNaN(x): whether Number(x) is NaN.  An array converts through the string
\* of its elements joined by commas (an array of arrays is not modelled), an
\* object through "[object Object]".
isNaN(x) ==
    CASE x.k = "number" -> FALSE
      [] x.k = "null" -> FALSE
      [] x.k \in {"NaN", "undefined", "object"} -> TRUE
      [] x.k = "string" -> StringToNumber(x.s) = NaN
      [] x.k = "array" ->
            IF Len(x.items) = 0 THEN FALSE
            ELSE IF Len(x.items) > 1 THEN TRUE
            ELSE LET item == x.items[1]
                 IN  CASE item.k \in {"number", "null", "undefined", "hole"} -> FALSE
                       [] item.k = "string" -> StringToNumber(item.s) = NaN
                       [] OTHER -> TRUE

(***************************************************************************)
(* Arrays: items[j+1] is the element at JavaScript index j.                *)
(***************************************************************************)
Holes(n) == [x \in 1..n |-> Hole]

\* The value of the own property `key` in a sequence of entries.
Lookup(entries, key) ==
    IF \E e \in 1..Len(entries) : entries[e].key = key
    THEN entries[CHOOSE e \in 1..Len(entries) : entries[e].key = key].value
    ELSE Undefined

\* entries with the property `key` set to `value` (a new key goes last).
WithProperty(entries, key, value) ==
    IF \E e \in 1..Len(entries) : entries[e].key = key
    THEN [e \in 1..Len(entries) |->
            IF entries[e].key = key THEN Entry(key, value) ELSE entries[e]]
    ELSE Append(entries, Entry(key, value))

\* a[j]
ArrayGet(a, j) ==
    IF j < 0 THEN Lookup(a.props, ToString(j))
    ELSE IF j < Len(a.items) /\ a.items[j + 1] # Hole THEN a.items[j + 1]
    ELSE Undefined

\* a[j] = value: an index at or past the length extends the array with holes;
\* a negative j is an ordinary property, not an element.
ArraySet(a, j, value) ==
    IF j < 0 THEN [a EXCEPT !.props = WithProperty(@, ToString(j), value)]
    ELSE IF j < Len(a.items) THEN [a EXCEPT !.items[j + 1] = value]
    ELSE [a EXCEPT !.items = @ \o Holes(j - Len(@)) \o <<value>>]

\* delete a[j]: the length is kept.
ArrayDelete(a, j) ==
    IF j >= 0 /\ j < Len(a.items) THEN [a EXCEPT !.items[j + 1] = Hole] ELSE a

\* splice(start) deleting from one index too far to the right.
SpliceStartOneLate(start, len) ==
    IF start + 1 < 0 THEN (IF len + start + 1 > 0 THEN len + start + 1 ELSE 0)
    ELSE IF start + 1 < len THEN start + 1 ELSE len

\* splice(start) deleting from one index too far to the left.
SpliceStartOneEarly(start, len) ==
    IF start - 1 < 0 THEN (IF len + start - 1 > 0 THEN len + start - 1 ELSE 0)
    ELSE IF start - 1 < len THEN start - 1 ELSE len

\* Where splice(start) starts deleting in an array of length len.
SpliceStart(start, len) ==
    IF start < 0 THEN (IF len + start > 0 THEN len + start ELSE 0)
    ELSE IF start < len THEN start ELSE len

\* a.splice(start): everything from the start index on is removed.
ArraySplice(a, start) ==
    [a EXCEPT !.items = SubSeq(@, 1, SpliceStart(start, Len(@)))]

\* Object.entries(x): of an Array the elements that are not holes, keyed by
\* their index in decimal, then its other properties; of an object its entries.
RECURSIVE IndexEntries(_, _)
IndexEntries(items, j) ==
    IF j >= Len(items) THEN <<>>
    ELSE (IF items[j + 1] = Hole THEN <<>> ELSE <<Entry(ToString(j), items[j + 1])>>)
         \o IndexEntries(items, j + 1)

ObjectEntries(x) ==
    CASE x.k = "array" -> IndexEntries(x.items, 0) \o x.props
      [] x.k = "object" -> x.entries

(***************************************************************************)
(* Player                                                                  *)
(***************************************************************************)
Player(name, roundScores) == [name |-> name, roundScores |-> roundScores]

\* clearRoundScores writing 0 into every slot instead of emptying the array.
clearRoundScoresToZero(player) ==
    [player EXCEPT !.roundScores.items = [j \in 1..Len(@) |-> Num(0)]]

clearRoundScores(player) == [player EXCEPT !.roundScores = EmptyArray]

\* The reduce of Player.totalScore: holes are skipped, and the accumulator
\* starts undefined.
RECURSIVE ReduceTotalScore(_, _)
ReduceTotalScore(items, previous) ==
    IF items = <<>> THEN previous
    ELSE LET current == Head(items)
         IN  IF current = Hole THEN ReduceTotalScore(Tail(items), previous)
             ELSE ReduceTotalScore(Tail(items),
                    IF previous = Undefined THEN Coalesce(current, Num(0))
                    ELSE Plus(previous, Coalesce(current, Num(0))))

\* totalScore with the accumulator starting at 0.
totalScoreFromZero(player) == ReduceTotalScore(player.roundScores.items, Num(0))

totalScore(player) == ReduceTotalScore(player.roundScores.items, Undefined)

(***************************************************************************)
(* Game                                                                    *)
(***************************************************************************)
DefaultName(i) == Str("player " \o ToString(i + 1))

\* The for loop of #modifyPlayers, from index i on.
RECURSIVE ModifyPlayersLoop(_, _, _, _)
ModifyPlayersLoop(i, playerCount, roundCount, players) ==
    IF ~Lt(Num(i), playerCount) THEN players
    ELSE LET present == IF i >= Len(players)
                        THEN Append(players, Player(DefaultName(i), EmptyArray))
                        ELSE players
             length == Len(present[i + 1].roundScores.items)
             trimmed == IF Lt(roundCount, Num(length))
                        THEN [present EXCEPT ![i + 1].roundScores =
                                ArraySplice(@, roundCount.v - length)]
                        ELSE present
         IN  ModifyPlayersLoop(i + 1, playerCount, roundCount, trimmed)

modifyPlayers(playerCount, roundCount, players) ==
    LET looped == ModifyPlayersLoop(0, playerCount, roundCount, players)
    IN  IF Lt(playerCount, Num(Len(looped)))
        THEN SubSeq(looped, 1, SpliceStart(playerCount.v - Len(looped), Len(looped)))
        ELSE looped

\* The constructor keeping the players it is given as they are.
NewGameKeepingPlayers(roundCount, playerCount, players) ==
    [roundCount |-> roundCount, playerCount |-> playerCount,
     players |-> IF players = <<>> THEN modifyPlayers(playerCount, roundCount, players)
                 ELSE players]

\* new Game(roundCount, playerCount, players)
NewGame(roundCount, playerCount, players) ==
    [roundCount |-> roundCount, playerCount |-> playerCount,
     players |-> modifyPlayers(playerCount, roundCount, players)]

\* game.roundCount = newRoundCount
SetRoundCount(g, newRoundCount) ==
    [g EXCEPT !.roundCount = newRoundCount,
              !.players = modifyPlayers(g.playerCount, newRoundCount, @)]

\* game.playerCount = newPlayerCount
SetPlayerCount(g, newPlayerCount) ==
    [g EXCEPT !.playerCount = newPlayerCount,
              !.players = modifyPlayers(newPlayerCount, g.roundCount, @)]

clearPlayerScores(g) ==
    [g EXCEPT !.players = [i \in 1..Len(@) |-> clearRoundScores(@[i])]]

(***************************************************************************)
(* The extremes calculation.                                               *)
(***************************************************************************)
\* The two comparisons the calculation passes as isExtremeValue:
\* (lowestValue, value) => lowestValue > value and
\* (highestValue, value) => highestValue < value.
IsExtremeValue(isExtremeValue, extremeValue, value) ==
    CASE isExtremeValue = "lowestValue > value" -> Lt(value, extremeValue)
      [] isExtremeValue = "highestValue < value" -> Lt(extremeValue, value)

itemIndexesWithExtremeValues(values, initialExtremeValue, isExtremeValue) ==
    LET after[i \in 0..Len(values)] ==
            IF i = 0
            THEN [currentExtremeValue |-> initialExtremeValue,
                  indexesWithExtremeValue |-> <<>>]
            ELSE LET value == values[i]
                     before == after[i - 1]
                     reset == IsExtremeValue(isExtremeValue, before.currentExtremeValue, value)
                     current == IF reset THEN value ELSE before.currentExtremeValue
                     indexes == IF reset THEN <<>> ELSE before.indexesWithExtremeValue
                 IN  [currentExtremeValue |-> current,
                      indexesWithExtremeValue |->
                          IF current = value THEN Append(indexes, i - 1) ELSE indexes]
    IN  after[Len(values)].indexesWithExtremeValue

InSeq(x, s) == \E e \in 1..Len(s) : s[e] = x

\* The calculation without the two comparisons against
\* totalScoresNotUndefinedCount.
calculateIgnoringUndefinedTotals(players) ==
    LET totalScores == [i \in 1..Len(players) |-> totalScore(players[i])]
        lowestScoreIndexes ==
            itemIndexesWithExtremeValues(totalScores, Num(MAX_SAFE_INTEGER),
                                         "lowestValue > value")
        highestScoreIndexes ==
            itemIndexesWithExtremeValues(totalScores, Num(MIN_SAFE_INTEGER),
                                         "highestValue < value")
    IN  IF \/ Len(highestScoreIndexes) = Len(players)
           \/ Len(lowestScoreIndexes) = Len(players)
        THEN [i \in 1..Len(players) |->
                [hasHighestTotalScore |-> FALSE, hasLowestTotalScore |-> FALSE]]
        ELSE [i \in 1..Len(players) |->
                [hasHighestTotalScore |-> InSeq(i - 1, highestScoreIndexes),
                 hasLowestTotalScore |-> InSeq(i - 1, lowestScoreIndexes)]]

calculateHighestAndLowestPlayerTotalScores(players) ==
    LET totalScores == [i \in 1..Len(players) |-> totalScore(players[i])]
        totalScoresNotUndefinedCount ==
            Cardinality({i \in 1..Len(players) : totalScores[i] # Undefined})
        lowestScoreIndexes ==
            itemIndexesWithExtremeValues(totalScores, Num(MAX_SAFE_INTEGER),
                                         "lowestValue > value")
        highestScoreIndexes ==
            itemIndexesWithExtremeValues(totalScores, Num(MIN_SAFE_INTEGER),
                                         "highestValue < value")
    IN  IF \/ Len(highestScoreIndexes) = Len(players)
           \/ Len(lowestScoreIndexes) = Len(players)
           \/ Len(highestScoreIndexes) = totalScoresNotUndefinedCount
           \/ Len(lowestScoreIndexes) = totalScoresNotUndefinedCount
        THEN [i \in 1..Len(players) |->
                [hasHighestTotalScore |-> FALSE, hasLowestTotalScore |-> FALSE]]
        ELSE [i \in 1..Len(players) |->
                [hasHighestTotalScore |-> InSeq(i - 1, highestScoreIndexes),
                 hasLowestTotalScore |-> InSeq(i - 1, lowestScoreIndexes)]]

(***************************************************************************)
(* The storage codec.                                                      *)
(***************************************************************************)
convertRoundScoresToRoundScoresData(roundScores) ==
    Obj(IndexEntries(roundScores.items, 0))

RECURSIVE ReduceRoundScoresData(_, _)
ReduceRoundScoresData(entries, previous) ==
    IF entries = <<>> THEN previous
    ELSE ReduceRoundScoresData(Tail(entries),
            ArraySet(previous, parseInt(Head(entries).key).v, Head(entries).value))

convertRoundScoresDataToRoundScores(roundScoresData) ==
    ReduceRoundScoresData(ObjectEntries(roundScoresData), EmptyArray)

convertGameToGameData(g) ==
    Obj(<<Entry("players",
              Arr([i \in 1..Len(g.players) |->
                      Obj(<<Entry("roundScores",
                                convertRoundScoresToRoundScoresData(g.players[i].roundScores)),
                            Entry("name", g.players[i].name)>>)],
                  <<>>)),
          Entry("roundCount", g.roundCount)>>)

convertGameDataToGame(gameData) ==
    LET players == [i \in 1..Len(gameData.players) |->
                       Player(gameData.players[i].name,
                              convertRoundScoresDataToRoundScores(
                                  gameData.players[i].roundScores))]
    IN  NewGame(gameData.roundCount, Num(Len(players)), players)

\* The document JSON.stringify(x) writes: NaN becomes null, a hole or an
\* undefined element becomes null, an undefined property and the non-index
\* properties of an Array are left out.
RECURSIVE JSONStringify(_)
JSONStringify(x) ==
    CASE x.k \in {"number", "string", "null"} -> x
      [] x.k = "NaN" -> Null
      [] x.k = "array" ->
            Arr([i \in 1..Len(x.items) |->
                    IF x.items[i].k \in {"hole", "undefined"} THEN Null
                    ELSE JSONStringify(x.items[i])],
                <<>>)
      [] x.k = "object" ->
            LET Defined(e) == e.value.k # "undefined"
                kept == SelectSeq(x.entries, Defined)
            IN  Obj([e \in 1..Len(kept) |->
                        Entry(kept[e].key, JSONStringify(kept[e].value))])

\* What localStorage.getItem('gameData') finds: no item, the empty string, a
\* text JSON.parse rejects, or a text that parses to the document doc.
StoredAbsent == [k |-> "absent"]
StoredEmpty == [k |-> "empty"]
StoredGarbage == [k |-> "garbage"]
StoredText(doc) == [k |-> "json", doc |-> doc]

\* gameStorage.save(gameData)
save(gameData) == StoredText(JSONStringify(gameData))

Thrown == [threw |-> TRUE]

\* The inner loop of tryLoad over Object.entries(maybePlayer.roundScores).
RECURSIVE LoadRoundScores(_, _)
LoadRoundScores(entries, newRoundScores) ==
    IF entries = <<>> THEN [threw |-> FALSE, roundScores |-> newRoundScores]
    ELSE LET maybeIndex == parseInt(Head(entries).key)
             maybeScore == Head(entries).value
         IN  IF isNaN(maybeIndex) \/ isNaN(maybeScore) THEN Thrown
             ELSE LoadRoundScores(Tail(entries),
                                  ArraySet(newRoundScores, maybeIndex.v, maybeScore))

\* The loop body without the two checks of maybePlayer.name.
LoadPlayerWithoutNameCheck(maybePlayer) ==
    IF maybePlayer.k # "object" THEN Thrown
    ELSE LET name == Lookup(maybePlayer.entries, "name")
             roundScores == Lookup(maybePlayer.entries, "roundScores")
         IN  IF Falsy(roundScores) \/ typeof(roundScores) # "object" THEN Thrown
             ELSE LET loaded == LoadRoundScores(ObjectEntries(roundScores), EmptyArray)
                  IN  IF loaded.threw THEN Thrown
                      ELSE [threw |-> FALSE, name |-> name,
                            roundScores |-> loaded.roundScores]

\* The body of tryLoad's loop for one maybePlayer.  Reading a property of
\* null is a TypeError; of another value that is no object it is undefined.
LoadPlayer(maybePlayer) ==
    IF maybePlayer.k # "object" THEN Thrown
    ELSE LET name == Lookup(maybePlayer.entries, "name")
             roundScores == Lookup(maybePlayer.entries, "roundScores")
         IN  IF \/ Falsy(name)
                \/ typeof(name) # "string"
                \/ Falsy(roundScores)
                \/ typeof(roundScores) # "object"
             THEN Thrown
             ELSE LET loaded == LoadRoundScores(ObjectEntries(roundScores), EmptyArray)
                  IN  IF loaded.threw THEN Thrown
                      ELSE [threw |-> FALSE, name |-> name,
                            roundScores |-> loaded.roundScores]

\* gameStorage.tryLoad(): Thrown, or the game data with every player's
\* roundScores replaced by the array built from its entries.
tryLoad(item) ==
    IF item.k \in {"absent", "empty", "garbage"} THEN Thrown
    ELSE LET maybeGame == item.doc
         IN  IF maybeGame.k # "object" THEN Thrown
             ELSE LET players == Lookup(maybeGame.entries, "players")
                      roundCount == Lookup(maybeGame.entries, "roundCount")
                  IN  IF \/ Falsy(players)
                         \/ players.k # "array"
                         \/ Len(players.items) < 1
                         \/ typeof(roundCount) # "number"
                      THEN Thrown
                      ELSE LET loaded == [i \in 1..Len(players.items) |->
                                             LoadPlayer(players.items[i])]
                           IN  IF \E i \in 1..Len(loaded) : loaded[i].threw THEN Thrown
                               ELSE [threw |-> FALSE, players |-> loaded,
                                     roundCount |-> roundCount]

(***************************************************************************)
(* The table projection.                                                   *)
(***************************************************************************)
\* How often a loop `for (let i = 0; i < count; i++)` runs.
Iterations(count) == IF count.k = "number" /\ count.v > 0 THEN count.v ELSE 0

\* value.toString() of a number.
NumberToString(x) == Str(ToString(x.v))

LabelCell(text) == [value |-> Str(text), belongsToHighest |-> FALSE, belongsToLowest |-> FALSE]

\* Whether convertGameToTableData(game) throws: it reads players[i] past the
\* end of players, or calls toString() on a null score.
TableThrows(g) ==
    \/ Iterations(g.playerCount) > Len(g.players)
    \/ \E i \in 1..Iterations(g.playerCount) : \E j \in 1..Iterations(g.roundCount) :
          ArrayGet(g.players[i].roundScores, j - 1) = Null

\* The rows of convertGameToTableData(game), flags being what
\* calculateHighestAndLowestPlayerTotalScores returned.
HeaderRow(g, flags) ==
    <<LabelCell("Player")>> \o
    [i \in 1..Iterations(g.playerCount) |->
        [value |-> g.players[i].name,
         belongsToLowest |-> flags[i].hasLowestTotalScore,
         belongsToHighest |-> flags[i].hasHighestTotalScore]]

BodyRows(g) ==
    IF Iterations(g.playerCount) = 0 THEN <<>>
    ELSE [j \in 1..Iterations(g.roundCount) |->
            <<LabelCell("R " \o ToString(j))>> \o
            [i \in 1..Iterations(g.playerCount) |->
                LET score == ArrayGet(g.players[i].roundScores, j - 1)
                IN  [value |-> IF score = Undefined THEN Str("")
                               ELSE NumberToString(score)]]]

FooterRow(g, flags) ==
    <<LabelCell("Total")>> \o
    [i \in 1..Len(g.players) |->
        [value |-> IF totalScore(g.players[i]) = Undefined THEN Undefined
                   ELSE NumberToString(totalScore(g.players[i])),
         belongsToLowest |-> flags[i].hasLowestTotalScore,
         belongsToHighest |-> flags[i].hasHighestTotalScore]]

convertGameToTableData(g) ==
    LET flags == calculateHighestAndLowestPlayerTotalScores(g.players)
    IN  IF TableThrows(g) THEN Thrown
        ELSE [threw |-> FALSE,
              headerRow |-> HeaderRow(g, flags),
              bodyRows |-> BodyRows(g),
              footerRow |-> FooterRow(g, flags)]

\* The rendered table: how many cells the header row holds, how many body rows
\* there are and how many cells each holds.  Every cell but the first of a
\* row carries an input handler.
EmptyDom == [headerCells |-> 0, bodyRows |-> 0, bodyCells |-> 0]

\* renderTableHeaderWithHeaderRowData: one cell per entry of headerRow.
RenderedHeaderCells(g) == 1 + Iterations(g.playerCount)

\* renderTableWithTableData: one row per entry of bodyRows, one cell per entry
\* of a row.
RenderedTable(g) ==
    [headerCells |-> RenderedHeaderCells(g),
     bodyRows |-> IF Iterations(g.playerCount) = 0 THEN 0 ELSE Iterations(g.roundCount),
     bodyCells |-> IF Iterations(g.playerCount) = 0 \/ Iterations(g.roundCount) = 0
                   THEN 0 ELSE 1 + Iterations(g.playerCount)]

(***************************************************************************)
(* The script and its event handlers.                                      *)
(***************************************************************************)
defaultPlayerCount == 4
defaultRoundCount == 7

\* new Game(defaultRoundCount, defaultPlayerCount)
DefaultGame == NewGame(Num(defaultRoundCount), Num(defaultPlayerCount), <<>>)

\* The game the script starts with: the default game, replaced by the stored
\* one unless tryLoad throws.
LoadedGame(item) ==
    LET gameData == tryLoad(item)
    IN  IF gameData.threw THEN DefaultGame ELSE convertGameDataToGame(gameData)

\* Whether a player carries data of its own: a name other than the default
\* name of its index, or a set score.
HasData(players, i) ==
    \/ players[i + 1].name # DefaultName(i)
    \/ \E j \in 1..Len(players[i + 1].roundScores.items) :
          players[i + 1].roundScores.items[j] # Hole

Lowest(S, old) ==
    IF S = {} THEN old
    ELSE LET m == CHOOSE x \in S : \A y \in S : x <= y
         IN  IF old = -1 \/ m < old THEN m ELSE old

NothingCut == [player |-> -1, round |-> -1]

\* The history of truncations after a count change took players from before
\* to after.
CutAfter(before, after) ==
    [player |-> Lowest({i \in Len(after)..(Len(before) - 1) : HasData(before, i)},
                       cut.player),
     round |-> Lowest({j \in 0..defaultRoundCount :
                          \E i \in 1..Len(after) :
                              /\ i <= Len(before)
                              /\ j >= Len(after[i].roundScores.items)
                              /\ j < Len(before[i].roundScores.items)
                              /\ before[i].roundScores.items[j + 1] # Hole},
                      cut.round)]

\* The texts the user leaves in a count input, a score cell and a name cell.
CountTexts == {""} \cup {ToString(n) : n \in -1..MaxCount}
ScoreTexts == {"", "0", "5"}
EditedColumns == {1}
\* Name cells are edited in the columns RenamedColumns.
RenamedColumns == {1}
NameTexts == {"", "zoe"}

\* gameStorage.save(convertGameToGameData(game)) followed by render(), which
\* leaves the table as it is when convertGameToTableData throws.
SaveAndRender(g) ==
    /\ game' = g
    /\ storage' = save(convertGameToGameData(g))
    /\ result' = calculateHighestAndLowestPlayerTotalScores(g.players)
    /\ threw' = TableThrows(g)
    /\ dom' = IF TableThrows(g) THEN dom ELSE RenderedTable(g)

\* The script, from `let game = new Game(...)` to its end.  The handlers of
\* the count inputs are bound before the first render(); the handler of the
\* clear button after it.
Startup ==
    /\ pc = "start"
    /\ LET g == LoadedGame(storage)
       IN  /\ game' = g
           /\ result' = calculateHighestAndLowestPlayerTotalScores(g.players)
           /\ threw' = TableThrows(g)
           /\ dom' = IF TableThrows(g) THEN dom ELSE RenderedTable(g)
           /\ pc' = IF TableThrows(g) THEN "aborted" ELSE "ready"
    /\ lastOp' = "startup"
    /\ UNCHANGED <<storage, cut>>

\* roundCountInput.onchange
RoundCountChange(text) ==
    /\ pc # "start"
    /\ LET g == SetRoundCount(game, parseInt(text))
       IN  /\ SaveAndRender(g)
           /\ cut' = CutAfter(game.players, g.players)
    /\ lastOp' = "setRoundCount"
    /\ UNCHANGED pc

\* playerCountInput.onchange
PlayerCountChange(text) ==
    /\ pc # "start"
    /\ LET g == SetPlayerCount(game, parseInt(text))
       IN  /\ SaveAndRender(g)
           /\ cut' = CutAfter(game.players, g.players)
    /\ lastOp' = "setPlayerCount"
    /\ UNCHANGED pc

\* clearScoresButton.onclick
ClearScores ==
    /\ pc = "ready"
    /\ SaveAndRender(clearPlayerScores(game))
    /\ lastOp' = "clear"
    /\ cut' = NothingCut
    /\ UNCHANGED pc

\* cell.oninput of the body cell in row i, column j >= 1: the score of player
\* j - 1 in round i.  Assigning into a player that is not there is a TypeError.
ScoreInput(i, j, text) ==
    /\ pc # "start"
    /\ i < dom.bodyRows /\ j < dom.bodyCells
    /\ lastOp' = "setScore"
    /\ IF j > Len(game.players)
       THEN /\ threw' = TRUE
            /\ UNCHANGED <<storage, game, result, dom, pc, cut>>
       ELSE LET score == parseInt(text)
                g == [game EXCEPT !.players[j].roundScores =
                        IF isNaN(score) THEN ArrayDelete(@, i)
                        ELSE ArraySet(@, i, score)]
            IN  /\ game' = g
                /\ storage' = save(convertGameToGameData(g))
                /\ result' = calculateHighestAndLowestPlayerTotalScores(g.players)
                /\ threw' = TableThrows(g)
                /\ dom' = IF TableThrows(g) THEN dom
                          ELSE [dom EXCEPT !.headerCells = RenderedHeaderCells(g)]
                /\ cut' = NothingCut
                /\ UNCHANGED pc

\* The header cell handler without its call of gameStorage.save.
NameInputWithoutSave(i, text) ==
    /\ pc # "start"
    /\ i < dom.headerCells
    /\ i <= Len(game.players)
    /\ lastOp' = "rename"
    /\ game' = [game EXCEPT !.players[i].name = Str(text)]
    /\ threw' = FALSE
    /\ cut' = NothingCut
    /\ UNCHANGED <<storage, result, dom, pc>>

\* cell.oninput of the header cell i >= 1: the name of player i - 1.
NameInput(i, text) ==
    /\ pc # "start"
    /\ i < dom.headerCells
    /\ lastOp' = "rename"
    /\ IF i > Len(game.players)
       THEN /\ threw' = TRUE
            /\ UNCHANGED <<storage, game, result, dom, pc, cut>>
       ELSE LET g == [game EXCEPT !.players[i].name = Str(text)]
            IN  /\ game' = g
                /\ storage' = save(convertGameToGameData(g))
                /\ threw' = FALSE
                /\ cut' = NothingCut
                /\ UNCHANGED <<result, dom, pc>>

(***************************************************************************)
(* What the storage may hold when the script starts.                       *)
(***************************************************************************)
PlayerData(name, roundScores) ==
    Obj(<<Entry("name", name), Entry("roundScores", roundScores)>>)
GameData(players, roundCount) ==
    Obj(<<Entry("players", Arr(players, <<>>)), Entry("roundCount", roundCount)>>)

\* Records the script accepts.
AcceptedDocs ==
    { GameData(<<PlayerData(Str("zoe"), Obj(<<Entry("0", Num(5)), Entry("3", Num(0))>>)),
                 PlayerData(Str("player 2"), Obj(<<Entry("0", Num(0)), Entry("1", Num(5))>>))>>, Num(2)),
      GameData(<<PlayerData(Str("zoe"), Obj(<<Entry("0", Null)>>))>>, Num(1)),
      GameData(<<PlayerData(Str("zoe"), Obj(<<Entry("-1", Num(5)), Entry("1", Num(5))>>))>>,
               Num(2)) }

\* Records the script rejects.
RejectedDocs ==
    { Null,
      Obj(<<Entry("players", Str("not an array"))>>),
      Obj(<<Entry("roundCount", Num(2))>>),
      GameData(<<>>, Num(2)),
      GameData(<<PlayerData(Str(""), Obj(<<>>))>>, Num(2)),
      GameData(<<PlayerData(Num(5), Obj(<<>>))>>, Num(2)),
      GameData(<<Obj(<<Entry("roundScores", Obj(<<>>))>>)>>, Num(2)),
      GameData(<<Obj(<<Entry("name", Str("zoe"))>>)>>, Num(2)),
      GameData(<<PlayerData(Str("zoe"), Obj(<<Entry("x", Num(5))>>))>>, Num(2)),
      GameData(<<PlayerData(Str("zoe"), Obj(<<Entry("0", Str("x"))>>))>>, Num(2)),
      Obj(<<Entry("players", Arr(<<PlayerData(Str("zoe"), Obj(<<Entry("0", Num(5))>>))>>,
                                 <<>>))>>) }

StoredItems ==
    {StoredAbsent, StoredEmpty, StoredGarbage}
        \cup {StoredText(doc) : doc \in AcceptedDocs \cup RejectedDocs}

Init ==
    /\ storage \in StoredItems
    /\ game = DefaultGame
    /\ result = <<>>
    /\ dom = EmptyDom
    /\ pc = "start"
    /\ threw = FALSE
    /\ lastOp = "none"
    /\ cut = NothingCut

Next ==
    \/ Startup
    \/ \E text \in CountTexts : RoundCountChange(text)
    \/ \E text \in CountTexts : PlayerCountChange(text)
    \/ ClearScores
    \/ \E i \in 0..(MaxEdit - 1), j \in EditedColumns, text \in ScoreTexts :
          ScoreInput(i, j, text)
    \/ \E i \in RenamedColumns, text \in NameTexts : NameInput(i, text)

Spec == Init /\ [][Next]_vars

(***************************************************************************)
(* The extremes calculation on its own: games of up to MaxTotals players   *)
(* and one round, every player's score unset or one of a few integers.     *)
(***************************************************************************)
TotalsScores == {Undefined, Num(-2), Num(0), Num(3), Num(5), Num(10)}

TotalsGames ==
    UNION { { [roundCount |-> Num(1), playerCount |-> Num(n),
               players |-> [i \in 1..n |->
                              Player(DefaultName(i - 1),
                                     IF scores[i] = Undefined THEN EmptyArray
                                     ELSE Arr(<<scores[i]>>, <<>>))]] :
              scores \in [1..n -> TotalsScores] } :
            n \in 0..MaxTotals }

InitExtremes ==
    /\ game \in TotalsGames
    /\ storage = save(convertGameToGameData(game))
    /\ result = <<>>
    /\ dom = RenderedTable(game)
    /\ pc = "ready"
    /\ threw = FALSE
    /\ lastOp = "none"
    /\ cut = NothingCut

\* const result = game.calculateHighestAndLowestPlayerTotalScores()
Calculate ==
    /\ lastOp = "none"
    /\ result' = calculateHighestAndLowestPlayerTotalScores(game.players)
    /\ lastOp' = "calculate"
    /\ UNCHANGED <<storage, game, dom, pc, threw, cut>>

NextExtremes == Calculate

SpecExtremes == InitExtremes /\ [][NextExtremes]_vars

(***************************************************************************)
(* The earlier, function-based variant of the script: the players, the two *)
(* counts and the rendered table, without storage.  game holds its players, *)
(* playerCount and roundCount, result the totals of the rendered footer.    *)
(***************************************************************************)
\* The loop `for (let j = 0; j < roundCount; j++)` of the earlier
\* modifyPlayers: a slot whose value is falsy is assigned undefined.
RECURSIVE EarlierPadRoundScores(_, _, _)
EarlierPadRoundScores(j, roundCount, roundScores) ==
    IF ~Lt(Num(j), roundCount) THEN roundScores
    ELSE EarlierPadRoundScores(j + 1, roundCount,
            IF Falsy(ArrayGet(roundScores, j)) THEN ArraySet(roundScores, j, Undefined)
            ELSE roundScores)

\* The loop over the players of the earlier modifyPlayers.
RECURSIVE EarlierModifyPlayersLoop(_, _, _, _, _)
EarlierModifyPlayersLoop(i, playerCount, roundCount, players, names) ==
    IF ~Lt(Num(i), playerCount) THEN players
    ELSE LET present == IF i >= Len(players)
                        THEN Append(players,
                                Player(IF i < Len(names) /\ ~Falsy(names[i + 1])
                                       THEN names[i + 1] ELSE DefaultName(i),
                                       EmptyArray))
                        ELSE players
             padded == EarlierPadRoundScores(0, roundCount, present[i + 1].roundScores)
             length == Len(padded.items)
             trimmed == IF Lt(roundCount, Num(length))
                        THEN ArraySplice(padded, roundCount.v - length)
                        ELSE padded
         IN  EarlierModifyPlayersLoop(i + 1, playerCount, roundCount,
                [present EXCEPT ![i + 1].roundScores = trimmed], names)

\* modifyPlayers(playerCount, roundCount, players, names) of the earlier variant.
EarlierModifyPlayers(playerCount, roundCount, players, names) ==
    LET looped == EarlierModifyPlayersLoop(0, playerCount, roundCount, players, names)
    IN  IF Lt(playerCount, Num(Len(looped)))
        THEN SubSeq(looped, 1, SpliceStart(playerCount.v - Len(looped), Len(looped)))
        ELSE looped

\* calculateTotalRoundScoreFor(player): the reduce starts at 0 and skips holes.
RECURSIVE EarlierReduceTotal(_, _)
EarlierReduceTotal(items, previous) ==
    IF items = <<>> THEN previous
    ELSE IF Head(items) = Hole THEN EarlierReduceTotal(Tail(items), previous)
    ELSE EarlierReduceTotal(Tail(items), Plus(previous, Coalesce(Head(items), Num(0))))

calculateTotalRoundScoreFor(player) == EarlierReduceTotal(player.roundScores.items, Num(0))

calculateRoundScoreTotals(players) ==
    [i \in 1..Len(players) |-> calculateTotalRoundScoreFor(players[i])]

\* The table the earlier renderTableWithTableData leaves: one header cell per
\* entry of headerRow, and for every round index that some player's roundScores
\* reaches a body row with cells up to the last such player.
EarlierRenderedTable(players) ==
    LET lengths == {Len(players[i].roundScores.items) : i \in 1..Len(players)}
        rows == IF lengths = {} THEN 0 ELSE CHOOSE n \in lengths : \A m \in lengths : m <= n
    IN  [headerCells |-> 1 + Len(players),
         rowCells |-> [j \in 1..rows |->
                          LET reaching == {i \in 1..Len(players) :
                                              Len(players[i].roundScores.items) >= j}
                          IN  1 + CHOOSE i \in reaching : \A o \in reaching : o <= i]]

\* renderTableWithTableData(..., convertPlayersToTableData(players, ...))
EarlierRender(players) ==
    /\ result' = calculateRoundScoreTotals(players)
    /\ dom' = EarlierRenderedTable(players)

\* The state reset() leaves when the script runs: players is empty before it.
EarlierStart ==
    EarlierModifyPlayers(Num(defaultPlayerCount), Num(defaultRoundCount), <<>>, <<>>)

InitEarlier ==
    /\ game = [players |-> EarlierStart, playerCount |-> Num(defaultPlayerCount),
               roundCount |-> Num(defaultRoundCount)]
    /\ result = calculateRoundScoreTotals(EarlierStart)
    /\ dom = EarlierRenderedTable(EarlierStart)
    /\ storage = StoredAbsent
    /\ pc = "ready"
    /\ threw = FALSE
    /\ lastOp = "reset"
    /\ cut = NothingCut

\* resize() after roundCountInput.onchange set roundCount
EarlierRoundCountChange(text) ==
    /\ LET roundCount == parseInt(text)
           players == EarlierModifyPlayers(game.playerCount, roundCount, game.players, <<>>)
       IN  /\ game' = [game EXCEPT !.roundCount = roundCount, !.players = players]
           /\ EarlierRender(players)
    /\ lastOp' = "setRoundCount"
    /\ UNCHANGED <<storage, pc, threw, cut>>

\* resize() after playerCountInput.onchange set playerCount
EarlierPlayerCountChange(text) ==
    /\ LET playerCount == parseInt(text)
           players == EarlierModifyPlayers(playerCount, game.roundCount, game.players, <<>>)
       IN  /\ game' = [game EXCEPT !.playerCount = playerCount, !.players = players]
           /\ EarlierRender(players)
    /\ lastOp' = "setPlayerCount"
    /\ UNCHANGED <<storage, pc, threw, cut>>

\* reset(): the count inputs show the defaults, the variables playerCount and
\* roundCount keep their values, the players are rebuilt with their names.
EarlierReset ==
    /\ LET names == [i \in 1..Len(game.players) |-> game.players[i].name]
           players == EarlierModifyPlayers(Num(defaultPlayerCount), Num(defaultRoundCount),
                                           <<>>, names)
       IN  /\ game' = [game EXCEPT !.players = players]
           /\ EarlierRender(players)
    /\ lastOp' = "reset"
    /\ UNCHANGED <<storage, pc, threw, cut>>

\* cell.oninput of the body cell in row i, column j >= 1 of the earlier
\* variant: a text that is no number is stored as 0; the footer is rendered.
EarlierScoreInput(i, j, text) ==
    /\ i < Len(dom.rowCells)
    /\ j < dom.rowCells[i + 1]
    /\ LET parsed == parseInt(text)
           score == IF isNaN(parsed) THEN Num(0) ELSE parsed
           players == [game.players EXCEPT ![j].roundScores = ArraySet(@, i, score)]
       IN  /\ game' = [game EXCEPT !.players = players]
           /\ result' = calculateRoundScoreTotals(players)
    /\ lastOp' = "setScore"
    /\ UNCHANGED <<storage, dom, pc, threw, cut>>

\* cell.oninput of the header cell i >= 1 of the earlier variant.
EarlierNameInput(i, text) ==
    /\ i < dom.headerCells
    /\ game' = [game EXCEPT !.players[i].name = Str(text)]
    /\ lastOp' = "rename"
    /\ UNCHANGED <<storage, result, dom, pc, threw, cut>>

NextEarlier ==
    \/ \E text \in CountTexts : EarlierRoundCountChange(text)
    \/ \E text \in CountTexts : EarlierPlayerCountChange(text)
    \/ EarlierReset
    \/ \E i \in 0..(MaxEdit - 1), j \in EditedColumns, text \in ScoreTexts :
          EarlierScoreInput(i, j, text)
    \/ \E i \in RenamedColumns, text \in NameTexts : EarlierNameInput(i, text)

SpecEarlier == InitEarlier /\ [][NextEarlier]_vars

(***************************************************************************)
(* Properties of the extremes calculation, checked under SpecExtremes.     *)
(***************************************************************************)
\* The totals the calculation reads, and the players that hold the maximum
\* and the minimum of the defined ones.
Totals == [i \in 1..Len(game.players) |-> totalScore(game.players[i])]
DefinedTotals == {i \in 1..Len(Totals) : Totals[i] # Undefined}
HoldMaximum == {i \in DefinedTotals : \A o \in DefinedTotals : Totals[o].v <= Totals[i].v}
HoldMinimum == {i \in DefinedTotals : \A o \in DefinedTotals : Totals[i].v <= Totals[o].v}
AllPlayers == 1..Len(Totals)
NoFlags == [hasHighestTotalScore |-> FALSE, hasLowestTotalScore |-> FALSE]
Calculated == lastOp = "calculate"

\* C1: the calculation returns all-false flags when the holders of the maximum
\* defined total or the holders of the minimum defined total are all players
\* or all players with a defined total; otherwise hasHighestTotalScore marks
\* exactly the holders of the maximum and hasLowestTotalScore exactly the
\* holders of the minimum.
C1_ExtremesAsSpecified ==
    Calculated =>
        /\ Len(result) = Len(Totals)
        /\ IF \/ HoldMaximum = AllPlayers \/ HoldMinimum = AllPlayers
              \/ HoldMaximum = DefinedTotals \/ HoldMinimum = DefinedTotals
           THEN \A i \in AllPlayers : result[i] = NoFlags
           ELSE \A i \in AllPlayers :
                   /\ result[i].hasHighestTotalScore = (i \in HoldMaximum)
                   /\ result[i].hasLowestTotalScore = (i \in HoldMinimum)

\* C1 witness: totals [10, 5, 10] give highest on 0 and 2 only, lowest on 1 only.
C1_Witness ==
    /\ Calculated
    /\ Totals = <<Num(10), Num(5), Num(10)>>
    /\ result = <<[hasHighestTotalScore |-> TRUE, hasLowestTotalScore |-> FALSE],
                  [hasHighestTotalScore |-> FALSE, hasLowestTotalScore |-> TRUE],
                  [hasHighestTotalScore |-> TRUE, hasLowestTotalScore |-> FALSE]>>

\* All defined totals are equal and at least one player has an undefined total.
EqualTotalsBesideUndefined ==
    /\ DefinedTotals # {}
    /\ \A i, o \in DefinedTotals : Totals[i] = Totals[o]
    /\ DefinedTotals # AllPlayers

\* C10 as claimed: when all defined totals are equal while some player has an
\* undefined total, hasHighestTotalScore is set on exactly the players with a
\* defined total and hasLowestTotalScore on no player.
C10_HighestKeptAsClaimed ==
    (Calculated /\ EqualTotalsBesideUndefined) =>
        \A i \in AllPlayers :
            /\ result[i].hasHighestTotalScore = (i \in DefinedTotals)
            /\ result[i].hasLowestTotalScore = FALSE

\* C10 amended: when all defined totals are equal while some player has an
\* undefined total, the calculation sets neither flag on any player.
C10_NoFlagsWhenDefinedTotalsTie ==
    (Calculated /\ EqualTotalsBesideUndefined) =>
        \A i \in AllPlayers : result[i] = NoFlags

\* C10 witness: totals [3, undefined, 3] have been calculated, with no flag set.
C10_Witness ==
    /\ Calculated
    /\ Totals = <<Num(3), Undefined, Num(3)>>
    /\ result = <<NoFlags, NoFlags, NoFlags>>

(***************************************************************************)
(* Properties of the program, checked under Spec.                          *)
(***************************************************************************)
Started == pc # "start"
IntegerCounts == game.roundCount.k = "number" /\ game.playerCount.k = "number"
\* The score of player i (from 1) at round index j (from 0); Undefined: unset.
Score(g, i, j) == ArrayGet(g.players[i].roundScores, j)
\* Round indexes at which a player of the model may hold a score.
RoundIndexes == 0..defaultRoundCount
Unset(g, i) == \A j \in RoundIndexes : Score(g, i, j) = Undefined

\* C2 as claimed, already on the games with integer counts and at least one
\* player: the record the game encodes to is accepted by tryLoad and decodes
\* to a game with the same names in the same order, the same round count and
\* the same score, set or unset, in every slot.
C2_RoundTripAsClaimed ==
    (Started /\ IntegerCounts /\ Len(game.players) >= 1) =>
        LET gameData == tryLoad(save(convertGameToGameData(game)))
        IN  /\ ~gameData.threw
            /\ LET decoded == convertGameDataToGame(gameData)
               IN  /\ Len(decoded.players) = Len(game.players)
                   /\ decoded.roundCount = game.roundCount
                   /\ \A i \in 1..Len(game.players) :
                         /\ decoded.players[i].name = game.players[i].name
                         /\ \A j \in RoundIndexes :
                               Score(decoded, i, j) = Score(game, i, j)

\* C3 as claimed: whenever playerCount is an integer, negative ones included,
\* the number of players equals playerCount.
C3_PlayersMatchPlayerCountAsClaimed ==
    (Started /\ game.playerCount.k = "number") =>
        Len(game.players) = game.playerCount.v

C5_SlotsBelowRoundCountKept ==
    [][\A text \in CountTexts :
          RoundCountChange(text) =>
              /\ Len(game'.players) = Len(game.players)
              /\ \A i \in 1..Len(game.players) : \A k \in RoundIndexes :
                    Lt(Num(k), game'.roundCount) => Score(game', i, k) = Score(game, i, k)]_vars

\* C5 witness: round-count changes have discarded a set score at a round index
\* of 1 or more while a recorded 0 at round index 0 is still there.
C5_Witness ==
    /\ lastOp = "setRoundCount"
    /\ cut.round >= 1
    /\ \E i \in 1..Len(game.players) : Score(game, i, 0) = Num(0)

\* C6 as claimed: once a count has been lowered to m, raising it to n > m
\* brings back nothing: the players at index m..n-1 carry their default name
\* and no set score, and the slots at round index m..n-1 of every player are
\* unset.  Stated for the runs in which the script has run to its end.
C6_TruncationPermanentAsClaimed ==
    [][pc # "ready" \/
       /\ (Lt(game.playerCount, game'.playerCount) /\ game'.roundCount = game.roundCount) =>
             \A i \in 1..Len(game'.players) :
                 (i - 1 >= game.playerCount.v) =>
                     game'.players[i].name = DefaultName(i - 1) /\ Unset(game', i)
       /\ (Lt(game.roundCount, game'.roundCount) /\ game'.playerCount = game.playerCount) =>
             \A i \in 1..Len(game'.players) : \A j \in RoundIndexes :
                 (j >= game.roundCount.v /\ j < game'.roundCount.v) =>
                     Score(game', i, j) = Undefined]_vars

\* C7: clearPlayerScores leaves every slot of every player unset and every
\* total undefined, and keeps roundCount, playerCount, the number of players
\* and every name.
C7_ClearKeepsNamesAndCounts ==
    [][ClearScores =>
          /\ game'.roundCount = game.roundCount
          /\ game'.playerCount = game.playerCount
          /\ Len(game'.players) = Len(game.players)
          /\ \A i \in 1..Len(game.players) :
                /\ game'.players[i].name = game.players[i].name
                /\ Unset(game', i)
                /\ \A j \in 1..Len(game'.players[i].roundScores.items) :
                      game'.players[i].roundScores.items[j] = Hole
                /\ totalScore(game'.players[i]) = Undefined]_vars

\* C7 witness: the scores of a game with a renamed player and changed counts
\* have been cleared.
C7_Witness ==
    /\ lastOp = "clear"
    /\ game.roundCount = Num(2)
    /\ game.playerCount = Num(2)
    /\ game.players[1].name = Str("zoe")
    /\ \A i \in 1..Len(game.players) : totalScore(game.players[i]) = Undefined

\* C8 as claimed: neither the script nor any event handler throws.
C8_NothingThrowsAsClaimed == ~threw

\* The stored records C9 names: absent or unparseable, or with a players field
\* that is missing, no array or empty, or with a player that has no non-empty
\* string name.
NoStringName(playerData) ==
    playerData.k = "object" /\
        LET named == {e \in 1..Len(playerData.entries) : playerData.entries[e].key = "name"}
        IN  \A e \in named : \/ playerData.entries[e].value.k # "string"
                             \/ playerData.entries[e].value.s = ""
UnusableRecord(item) ==
    \/ item.k \in {"absent", "empty", "garbage"}
    \/ /\ item.k = "json"
       /\ item.doc.k = "object"
       /\ LET fields == {e \in 1..Len(item.doc.entries) : item.doc.entries[e].key = "players"}
          IN  \/ fields = {}
              \/ \E e \in fields :
                    LET players == item.doc.entries[e].value
                    IN  \/ players.k # "array"
                        \/ players.items = <<>>
                        \/ \E i \in 1..Len(players.items) : NoStringName(players.items[i])

\* The fresh default game: 4 players named "player 1".."player 4", 7 rounds,
\* every slot unset.
FreshDefaultGame ==
    [roundCount |-> Num(7), playerCount |-> Num(4),
     players |-> <<Player(Str("player 1"), EmptyArray), Player(Str("player 2"), EmptyArray),
                   Player(Str("player 3"), EmptyArray), Player(Str("player 4"), EmptyArray)>>]

\* C9: when the stored record is one of those, the script runs to its end
\* with the fresh default game and nothing is thrown.
C9_UnusableRecordGivesDefaultGame ==
    (lastOp = "startup" /\ UnusableRecord(storage)) =>
        /\ game = FreshDefaultGame
        /\ ~threw
        /\ pc = "ready"

\* C9 witness: the script has started on the record {"players": "not an array"}.
C9_Witness ==
    /\ lastOp = "startup"
    /\ storage = StoredText(Obj(<<Entry("players", Str("not an array"))>>))
    /\ game = FreshDefaultGame
    /\ pc = "ready"

\* C11 as claimed: a player-count change to n > playerCount keeps roundCount,
\* keeps the name and every slot of each existing player, and appends exactly
\* n - playerCount players, the one at index i named "player {i+1}" with
\* every slot unset.
C11_GrowthAppendsDefaultsAsClaimed ==
    [][\A text \in CountTexts :
          (PlayerCountChange(text) /\ IntegerCounts /\ Lt(game.playerCount, game'.playerCount)) =>
              /\ game'.roundCount = game.roundCount
              /\ Len(game'.players) = Len(game.players) + (game'.playerCount.v - game.playerCount.v)
              /\ \A i \in 1..Len(game'.players) :
                    IF i <= Len(game.players)
                    THEN game'.players[i] = game.players[i]
                    ELSE game'.players[i].name = DefaultName(i - 1) /\ Unset(game', i)]_vars

\* A key of a stored roundScores mapping that is a decimal non-negative
\* integer index.
IndexKey(key) == key # "" /\ LeadingDigits(key) = key

\* A stored record in which some player's roundScores has a key that is no
\* such index.
HasBadKey(item) ==
    /\ item.k = "json"
    /\ item.doc.k = "object"
    /\ \E e \in 1..Len(item.doc.entries) :
          /\ item.doc.entries[e].key = "players"
          /\ item.doc.entries[e].value.k = "array"
          /\ \E i \in 1..Len(item.doc.entries[e].value.items) :
                LET playerData == item.doc.entries[e].value.items[i]
                IN  /\ playerData.k = "object"
                    /\ \E f \in 1..Len(playerData.entries) :
                          /\ playerData.entries[f].key = "roundScores"
                          /\ playerData.entries[f].value.k = "object"
                          /\ \E x \in 1..Len(playerData.entries[f].value.entries) :
                                ~IndexKey(playerData.entries[f].value.entries[x].key)

\* C12 as claimed: a stored record with a roundScores key that is no
\* non-negative integer index, "-1" included, is rejected, so the script
\* starts with the fresh default game.
C12_BadKeyRejectedAsClaimed ==
    (lastOp = "startup" /\ HasBadKey(storage)) => game = FreshDefaultGame

\* A stored record that is valid but for its missing roundCount field.
RecordWithoutRoundCount ==
    Obj(<<Entry("players", Arr(<<PlayerData(Str("zoe"), Obj(<<Entry("0", Num(5))>>))>>,
                               <<>>))>>)

\* C14 as claimed: a stored record without a roundCount field is accepted, the
\* game being hydrated with its players and scores.
C14_MissingRoundCountAcceptedAsClaimed ==
    (lastOp = "startup" /\ storage = StoredText(RecordWithoutRoundCount)) =>
        /\ Len(game.players) = 1
        /\ game.players[1].name = Str("zoe")
        /\ Score(game, 1, 0) = Num(5)

\* C13 as claimed, on the games for which convertGameToTableData returns a
\* table: with playerCount >= 0 and roundCount >= 0 the header row is "Player"
\* followed by the playerCount names, there are exactly roundCount body rows,
\* row j being "R {j+1}" followed by one cell per player, the footer row is
\* "Total" followed by one cell per player, and the header and footer cell of
\* player i carry the flags calculated for player i.
C13_TableShapeAsClaimed ==
    (Started /\ IntegerCounts /\ game.playerCount.v >= 0 /\ game.roundCount.v >= 0
        /\ ~TableThrows(game)) =>
        LET table == convertGameToTableData(game)
            flags == calculateHighestAndLowestPlayerTotalScores(game.players)
            n == game.playerCount.v
        IN  /\ Len(table.headerRow) = 1 + n
            /\ table.headerRow[1] = LabelCell("Player")
            /\ Len(table.footerRow) = 1 + n
            /\ table.footerRow[1] = LabelCell("Total")
            /\ \A i \in 1..n :
                  /\ table.headerRow[i + 1].value = game.players[i].name
                  /\ table.headerRow[i + 1].belongsToHighest = flags[i].hasHighestTotalScore
                  /\ table.headerRow[i + 1].belongsToLowest = flags[i].hasLowestTotalScore
                  /\ table.footerRow[i + 1].belongsToHighest = flags[i].hasHighestTotalScore
                  /\ table.footerRow[i + 1].belongsToLowest = flags[i].hasLowestTotalScore
            /\ Len(table.bodyRows) = game.roundCount.v
            /\ \A j \in 1..Len(table.bodyRows) :
                  /\ Len(table.bodyRows[j]) = 1 + n
                  /\ table.bodyRows[j][1] = LabelCell("R " \o ToString(j))

\* The indexes (from 1) of the set slots of a player, and the sum of the
\* scores they hold, a null score counting as 0.
SetSlots(player) ==
    {j \in 1..Len(player.roundScores.items) :
        player.roundScores.items[j] \notin {Hole, Undefined}}
RECURSIVE SumOfSlots(_, _)
SumOfSlots(player, slots) ==
    IF slots = {} THEN 0
    ELSE LET j == CHOOSE x \in slots : TRUE
             score == player.roundScores.items[j]
         IN  (IF score.k = "number" THEN score.v ELSE 0) + SumOfSlots(player, slots \ {j})

\* C15: a player's total is undefined exactly when the player has no set slot
\* and is the sum of the set slots otherwise; in the table, a body cell is ""
\* exactly when its slot is unset and "0" when the slot holds 0, and the footer
\* cell of a player is undefined or the text of the total likewise.
C15_UnsetAndZeroDistinguished ==
    Started =>
        /\ \A i \in 1..Len(game.players) :
              totalScore(game.players[i]) =
                  IF SetSlots(game.players[i]) = {} THEN Undefined
                  ELSE Num(SumOfSlots(game.players[i], SetSlots(game.players[i])))
        /\ ~TableThrows(game) =>
              LET table == convertGameToTableData(game)
              IN  /\ \A j \in 1..Len(table.bodyRows) :
                        \A i \in 1..(Len(table.bodyRows[j]) - 1) :
                            /\ (table.bodyRows[j][i + 1].value = Str(""))
                                  <=> (Score(game, i, j - 1) = Undefined)
                            /\ (Score(game, i, j - 1) = Num(0))
                                  => (table.bodyRows[j][i + 1].value = Str("0"))
                  /\ \A i \in 1..Len(game.players) :
                        table.footerRow[i + 1].value =
                            IF SetSlots(game.players[i]) = {} THEN Undefined
                            ELSE Str(ToString(SumOfSlots(game.players[i],
                                                         SetSlots(game.players[i]))))

\* C15 witness: after a score edit the first player holds only a recorded 0,
\* shown as "0" above an empty cell, with total 0, while the second player has
\* no set slot and no total.
C15_Witness ==
    /\ lastOp = "setScore"
    /\ ~TableThrows(game)
    /\ IntegerCounts /\ game.roundCount.v >= 2 /\ game.playerCount.v >= 2
    /\ Score(game, 1, 0) = Num(0)
    /\ Score(game, 1, 1) = Undefined
    /\ totalScore(game.players[1]) = Num(0)
    /\ totalScore(game.players[2]) = Undefined
    /\ LET table == convertGameToTableData(game)
       IN  /\ table.bodyRows[1][2].value = Str("0")
           /\ table.bodyRows[2][2].value = Str("")
           /\ table.footerRow[2].value = Str("0")
           /\ table.footerRow[3].value = Undefined
\* C17: after every handled event (score edit, rename, round-count change,
\* player-count change, clear) the stored item is the encoding of the game.
C17_StorageIsEncodingOfGame ==
    (lastOp \in {"setScore", "rename", "setRoundCount", "setPlayerCount", "clear"}) =>
        storage = StoredText(JSONStringify(convertGameToGameData(game)))

\* C17 witness: after a rename of the first player to "zoe" in a game holding
\* a score, the stored item is the encoding of that game.
C17_Witness ==
    /\ lastOp = "rename"
    /\ game.players[1].name = Str("zoe")
    /\ Score(game, 1, 0) = Num(5)
    /\ storage = StoredText(JSONStringify(convertGameToGameData(game)))
    /\ storage.doc.k = "object"

\* C18: whenever both counts are integers, the state right after start-up
\* included, no player has a set score at a round index >= roundCount.
C18_NoScoreBeyondRoundCount ==
    (Started /\ IntegerCounts) =>
        \A i \in 1..Len(game.players) : \A j \in RoundIndexes :
            (j >= game.roundCount.v) => Score(game, i, j) = Undefined

\* C18 witness: the script has started on a record holding a score at round
\* index 3 with roundCount 2; the score at index 0 is there, the one at index
\* 3 is not.
C18_Witness ==
    /\ lastOp = "startup"
    /\ game.roundCount = Num(2)
    /\ Len(game.players) = 2
    /\ game.players[1].name = Str("zoe")
    /\ Score(game, 1, 0) = Num(5)
    /\ Score(game, 1, 3) = Undefined
    /\ \E e \in 1..Len(storage.doc.entries) :
          /\ storage.doc.entries[e].key = "players"
          /\ Lookup(Lookup(storage.doc.entries[e].value.items[1].entries,
                           "roundScores").entries, "3") = Num(0)

\* C19: no player gets both flags from the calculation, and a player with an
\* undefined total gets neither.
C19_FlagsExclusive ==
    Calculated =>
        \A i \in 1..Len(result) :
            /\ ~(result[i].hasHighestTotalScore /\ result[i].hasLowestTotalScore)
            /\ (Totals[i] = Undefined) => (result[i] = NoFlags)

\* C19 witness: totals [10, undefined, 5] give highest on 0, lowest on 2 and
\* nothing on 1.
C19_Witness ==
    /\ Calculated
    /\ Totals = <<Num(10), Undefined, Num(5)>>
    /\ result = <<[hasHighestTotalScore |-> TRUE, hasLowestTotalScore |-> FALSE],
                  NoFlags,
                  [hasHighestTotalScore |-> FALSE, hasLowestTotalScore |-> TRUE]>>

(***************************************************************************)
(* Properties of the earlier variant, checked under SpecEarlier.           *)
(***************************************************************************)
\* C16 as claimed, for the score cell handler of the earlier variant: an edit
\* whose text is no number leaves the edited slot unset, never 0, and changes
\* no other slot, no name and no count.
C16_NonNumericEditUnsetsAsClaimed ==
    [][\A i \in 0..(MaxEdit - 1), j \in EditedColumns, text \in ScoreTexts :
          (EarlierScoreInput(i, j, text) /\ isNaN(parseInt(text))) =>
              /\ Score(game', j, i) = Undefined
              /\ game'.roundCount = game.roundCount
              /\ game'.playerCount = game.playerCount
              /\ Len(game'.players) = Len(game.players)
              /\ \A o \in 1..Len(game.players) :
                    /\ game'.players[o].name = game.players[o].name
                    /\ \A k \in RoundIndexes :
                          (o # j \/ k # i) => Score(game', o, k) = Score(game, o, k)]_vars

\* C20 as claimed: a resize of the earlier variant keeps every set score at a
\* round index below the new roundCount of the players below the new
\* playerCount, a recorded 0 included.
C20_ResizeKeepsZeroAsClaimed ==
    [][\A text \in CountTexts :
          (EarlierRoundCountChange(text) \/ EarlierPlayerCountChange(text)) =>
              \A o \in 1..Len(game.players) : \A k \in RoundIndexes :
                  (/\ Lt(Num(o - 1), game'.playerCount)
                   /\ Lt(Num(k), game'.roundCount)
                   /\ Score(game, o, k) # Undefined)
                      => Score(game', o, k) = Score(game, o, k)]_vars

====
